---- MODULE Spec2Model ----
(***************************************************************************)
(* Model of ReportEngine/ir/validator.py (class IRValidator): the          *)
(* chapter-level structural validator of the report IR.                    *)
(*                                                                         *)
(* A decoded JSON value is a record of one fixed shape                     *)
(*   [t, s, n, xs, kv]                                                     *)
(* t is the Python type ("null","bool","int","float","str","list","dict"), *)
(* s the text of a str (or the literal of a float), n the number of an int *)
(* (1/0 for a bool), xs the elements of a list and kv the entries of a     *)
(* dict in insertion order, each entry [k |-> key, v |-> value].           *)
(*                                                                         *)
(* A diagnostic is the record [pre, path, msg, arg]; the string the code   *)
(* appends is Render(e) = pre \o PathStr(path) \o msg \o arg.  The message *)
(* texts of the source are Chinese; each is written here by a fixed        *)
(* English text, one per source template (the source line is given where   *)
(* the template is used).                                                  *)
(***************************************************************************)
EXTENDS Integers, Sequences, FiniteSets, TLC

VARIABLES schema_version, calls

vars == <<schema_version, calls>>

(***************************************************************************)
(* JSON values                                                             *)
(***************************************************************************)
JNull == [t |-> "null", s |-> "", n |-> 0, xs |-> <<>>, kv |-> <<>>]
JBool(b) == [t |-> "bool", s |-> "", n |-> IF b THEN 1 ELSE 0, xs |-> <<>>, kv |-> <<>>]
JInt(i) == [t |-> "int", s |-> "", n |-> i, xs |-> <<>>, kv |-> <<>>]
JFloat(lit) == [t |-> "float", s |-> lit, n |-> 0, xs |-> <<>>, kv |-> <<>>]
JStr(x) == [t |-> "str", s |-> x, n |-> 0, xs |-> <<>>, kv |-> <<>>]
JList(elems) == [t |-> "list", s |-> "", n |-> 0, xs |-> elems, kv |-> <<>>]
JDict(entries) == [t |-> "dict", s |-> "", n |-> 0, xs |-> <<>>, kv |-> entries]
KV(key, val) == [k |-> key, v |-> val]

(***************************************************************************)
(* Python primitives used by the validator                                 *)
(***************************************************************************)
IsDict(v) == v.t = "dict"
IsList(v) == v.t = "list"
IsStr(v) == v.t = "str"
IsNone(v) == v.t = "null"
\* isinstance(v, int): bool is a subclass of int
IsInt(v) == v.t \in {"int", "bool"}
\* key in d
Has(d, key) == \E i \in 1..Len(d.kv) : d.kv[i].k = key
\* d.get(key): the value, or None when the key is absent
Get(d, key) ==
  IF Has(d, key) THEN d.kv[CHOOSE i \in 1..Len(d.kv) : d.kv[i].k = key].v ELSE JNull
\* truth value of a value (not v is ~Truthy(v))
Truthy(v) ==
  CASE v.t = "null" -> FALSE
    [] v.t = "bool" -> v.n = 1
    [] v.t = "int" -> v.n # 0
    [] v.t = "float" -> v.s \notin {"0.0", "-0.0"}
    [] v.t = "str" -> v.s # ""
    [] v.t = "list" -> Len(v.xs) > 0
    [] OTHER -> Len(v.kv) > 0
\* hash(v) raises TypeError for list and dict
Hashable(v) == v.t \notin {"list", "dict"}
\* v in {"a", "b", ...} for a hashable v and a set literal of strings
InStrSet(v, S) == IsStr(v) /\ v.s \in S
\* v in [..] for a list of strings: equality only, nothing is hashed
InStrList(v, seq) == IsStr(v) /\ \E i \in 1..Len(seq) : seq[i] = v.s

LowerChar(ch) ==
  CASE ch = "A" -> "a" [] ch = "B" -> "b" [] ch = "C" -> "c" [] ch = "D" -> "d"
    [] ch = "E" -> "e" [] ch = "F" -> "f" [] ch = "G" -> "g" [] ch = "H" -> "h"
    [] ch = "I" -> "i" [] ch = "J" -> "j" [] ch = "K" -> "k" [] ch = "L" -> "l"
    [] ch = "M" -> "m" [] ch = "N" -> "n" [] ch = "O" -> "o" [] ch = "P" -> "p"
    [] ch = "Q" -> "q" [] ch = "R" -> "r" [] ch = "S" -> "s" [] ch = "T" -> "t"
    [] ch = "U" -> "u" [] ch = "V" -> "v" [] ch = "W" -> "w" [] ch = "X" -> "x"
    [] ch = "Y" -> "y" [] ch = "Z" -> "z" [] OTHER -> ch

RECURSIVE LowerFrom(_, _)
LowerFrom(str, i) ==
  IF i > Len(str) THEN "" ELSE LowerChar(SubSeq(str, i, i)) \o LowerFrom(str, i + 1)

\* mutant of lower: the engine is compared as written
lower_identity(str) == str

\* str.lower()
lower(str) == LowerFrom(str, 1)

\* repr(v) / str(v), as the f-strings of the source format a value
RECURSIVE PyRepr(_)
RECURSIVE ReprElems(_, _)
RECURSIVE ReprEntries(_, _)
PyRepr(v) ==
  CASE v.t = "null" -> "None"
    [] v.t = "bool" -> IF v.n = 1 THEN "True" ELSE "False"
    [] v.t = "int" -> ToString(v.n)
    [] v.t = "float" -> v.s
    [] v.t = "str" -> "'" \o v.s \o "'"
    [] v.t = "list" -> "[" \o ReprElems(v.xs, 1) \o "]"
    [] OTHER -> "{" \o ReprEntries(v.kv, 1) \o "}"
ReprElems(xs, i) ==
  IF i > Len(xs) THEN ""
  ELSE (IF i > 1 THEN ", " ELSE "") \o PyRepr(xs[i]) \o ReprElems(xs, i + 1)
ReprEntries(kv, i) ==
  IF i > Len(kv) THEN ""
  ELSE (IF i > 1 THEN ", " ELSE "") \o "'" \o kv[i].k \o "': " \o PyRepr(kv[i].v)
       \o ReprEntries(kv, i + 1)

PyStr(v) == IF IsStr(v) THEN v.s ELSE PyRepr(v)

(***************************************************************************)
(* Schema registry (ReportEngine/ir/schema.py)                             *)
(***************************************************************************)
ALLOWED_BLOCK_TYPES ==
  <<"heading", "paragraph", "list", "table", "blockquote", "engineQuote",
    "callout", "kpiGrid", "widget", "code", "math", "figure">>

ALLOWED_INLINE_MARKS == <<"bold", "italic", "underline">>

ENGINE_KEYS == {"insight", "media", "query"}

\* ENGINE_AGENT_TITLES.get(engine): "" stands for None
ENGINE_AGENT_TITLES(engine) ==
  CASE engine = "insight" -> "Insight Agent"
    [] engine = "media" -> "Media Agent"
    [] engine = "query" -> "Query Agent"
    [] OTHER -> ""

IR_VERSION == "1.0"

(***************************************************************************)
(* Paths and diagnostics                                                   *)
(***************************************************************************)
\* a field access  .name
F(name) == [f |-> name, i |-> -1]

\* mutant of X: the index is rendered 1-based
X_one_based(idx) == [f |-> "", i |-> idx + 1]

\* a sequence index  [idx], idx as enumerate() yields it (0-based)
X(idx) == [f |-> "", i |-> idx]

IsIndex(seg) == seg.f = ""

RECURSIVE PathFrom(_, _)
PathFrom(path, i) ==
  IF i > Len(path) THEN ""
  ELSE (IF IsIndex(path[i]) THEN "[" \o ToString(path[i].i) \o "]"
        ELSE (IF i > 1 THEN "." ELSE "") \o path[i].f)
       \o PathFrom(path, i + 1)

\* the path text the f-strings build: blocks[2].items[0][1].inlines
PathStr(path) == PathFrom(path, 1)

E(path, msg, arg) == [pre |-> "", path |-> path, msg |-> msg, arg |-> arg]

Render(e) == e.pre \o PathStr(e.path) \o e.msg \o e.arg

(***************************************************************************)
(* The running state of one validate_chapter call while blocks are checked:*)
(* errs is the errors list (mutated in place by every checker), raised     *)
(* tells that an exception is propagating (nothing runs after it), visited *)
(* is the history of the paths at which a block check was entered.         *)
(***************************************************************************)
St(errs, raised, visited) == [errs |-> errs, raised |-> raised, visited |-> visited]

\* errors.append(e)
Err(st, e) == IF st.raised THEN st ELSE [st EXCEPT !.errs = Append(@, e)]

\* an uncaught TypeError: unhashable type
Raise(st) == [st EXCEPT !.raised = TRUE]

Visit(st, path) == IF st.raised THEN st ELSE [st EXCEPT !.visited = Append(@, path)]

RECURSIVE validate_block(_, _, _)
RECURSIVE list_sub_loop(_, _, _, _, _)
RECURSIVE list_items_loop(_, _, _, _)
RECURSIVE table_blocks_loop(_, _, _, _)
RECURSIVE table_cells_loop(_, _, _, _)
RECURSIVE table_rows_loop(_, _, _, _)
RECURSIVE sub_blocks_loop(_, _, _, _)

\* _validate_heading_block
validate_heading_block(block, path, st) ==
  LET s1 == IF ~Has(block, "level") \/ ~IsInt(Get(block, "level"))
            THEN Err(st, E(path \o <<F("level")>>, " must be an integer", ""))
            ELSE st
      s2 == IF ~Has(block, "text")
            THEN Err(s1, E(path \o <<F("text")>>, " is missing", ""))
            ELSE s1
  IN  IF ~Has(block, "anchor")
      THEN Err(s2, E(path \o <<F("anchor")>>, " is missing", ""))
      ELSE s2

\* the loop of _validate_inline_run over marks, from mark number m (1-based)
RECURSIVE run_marks_loop(_, _, _, _)
run_marks_loop(marks, m, path, st) ==
  IF m > Len(marks) THEN st
  ELSE LET mark == marks[m]
           mpath == path \o <<F("marks"), X(m - 1)>>
           s1 == IF ~IsDict(mark)
                 THEN Err(st, E(mpath, " must be an object", ""))
                 ELSE IF ~InStrList(Get(mark, "type"), ALLOWED_INLINE_MARKS)
                      THEN Err(st, E(mpath \o <<F("type")>>, " is not supported: ",
                                     PyStr(Get(mark, "type"))))
                      ELSE st
       IN  run_marks_loop(marks, m + 1, path, s1)

\* _validate_inline_run
validate_inline_run(run, path, st) ==
  IF ~IsDict(run) THEN Err(st, E(path, " must be an object", ""))
  ELSE LET s1 == IF ~Has(run, "text")
                 THEN Err(st, E(path \o <<F("text")>>, " is missing", ""))
                 ELSE st
           \* run.get("marks", []): the default applies to an absent key only
           marks == IF Has(run, "marks") THEN Get(run, "marks") ELSE JList(<<>>)
       IN  IF IsNone(marks) THEN s1
           ELSE IF ~IsList(marks)
                THEN Err(s1, E(path \o <<F("marks")>>, " must be an array", ""))
                ELSE run_marks_loop(marks.xs, 1, path, s1)

\* the loop of _validate_paragraph_block over inlines
RECURSIVE paragraph_loop(_, _, _, _)
paragraph_loop(inlines, i, path, st) ==
  IF i > Len(inlines) THEN st
  ELSE paragraph_loop(inlines, i + 1, path,
         validate_inline_run(inlines[i], path \o <<F("inlines"), X(i - 1)>>, st))

\* _validate_paragraph_block
validate_paragraph_block(block, path, st) ==
  LET inlines == Get(block, "inlines")
  IN  IF ~IsList(inlines) \/ ~Truthy(inlines)
      THEN Err(st, E(path \o <<F("inlines")>>, " must be a non-empty array", ""))
      ELSE paragraph_loop(inlines.xs, 1, path, st)

\* the test of _validate_list_block on one item: not isinstance(item, list)
list_item_is_bad(item) == ~IsList(item)

\* the inner loop of _validate_list_block: sub-blocks of item i (1-based)
list_sub_loop(item, i, j, path, st) ==
  IF j > Len(item) \/ st.raised THEN st
  ELSE list_sub_loop(item, i, j + 1, path,
         validate_block(item[j], path \o <<F("items"), X(i - 1), X(j - 1)>>, st))

\* the outer loop of _validate_list_block
list_items_loop(items, i, path, st) ==
  IF i > Len(items) \/ st.raised THEN st
  ELSE LET item == items[i]
           s1 == IF list_item_is_bad(item)
                 THEN Err(st, E(path \o <<F("items"), X(i - 1)>>,
                                " must be an array of blocks", ""))
                 ELSE list_sub_loop(item.xs, i, 1, path, st)
       IN  list_items_loop(items, i + 1, path, s1)

\* _validate_list_block
validate_list_block(block, path, st) ==
  \* block.get("listType") not in {"ordered", "bullet", "task"} hashes the value
  IF ~Hashable(Get(block, "listType")) THEN Raise(st)
  ELSE LET s1 == IF ~InStrSet(Get(block, "listType"), {"ordered", "bullet", "task"})
                 THEN Err(st, E(path \o <<F("listType")>>, " has an illegal value", ""))
                 ELSE st
           items == Get(block, "items")
       IN  IF ~IsList(items) \/ ~Truthy(items)
           THEN Err(s1, E(path \o <<F("items")>>, " must be a non-empty list", ""))
           ELSE list_items_loop(items.xs, 1, path, s1)

\* the innermost loop of _validate_table_block: blocks of one cell
table_blocks_loop(blocks, b, cpath, st) ==
  IF b > Len(blocks) \/ st.raised THEN st
  ELSE table_blocks_loop(blocks, b + 1, cpath,
         validate_block(blocks[b], cpath \o <<F("blocks"), X(b - 1)>>, st))

\* the loop of _validate_table_block over the cells of one row
table_cells_loop(cells, c, rpath, st) ==
  IF c > Len(cells) \/ st.raised THEN st
  ELSE LET cell == cells[c]
           cpath == rpath \o <<F("cells"), X(c - 1)>>
           blocks == Get(cell, "blocks")
           s1 == IF ~IsDict(cell)
                 THEN Err(st, E(cpath, " must be an object", ""))
                 ELSE IF ~IsList(blocks) \/ ~Truthy(blocks)
                      THEN Err(st, E(cpath \o <<F("blocks")>>,
                                     " must be a non-empty array", ""))
                      ELSE table_blocks_loop(blocks.xs, 1, cpath, st)
       IN  table_cells_loop(cells, c + 1, rpath, s1)

\* the loop of _validate_table_block over rows
table_rows_loop(rows, r, path, st) ==
  IF r > Len(rows) \/ st.raised THEN st
  ELSE LET row == rows[r]
           rpath == path \o <<F("rows"), X(r - 1)>>
           cells == IF IsDict(row) THEN Get(row, "cells") ELSE JNull
           s1 == IF ~IsList(cells) \/ ~Truthy(cells)
                 THEN Err(st, E(rpath \o <<F("cells")>>, " must be a non-empty array", ""))
                 ELSE table_cells_loop(cells.xs, 1, rpath, st)
       IN  table_rows_loop(rows, r + 1, path, s1)

\* _validate_table_block
validate_table_block(block, path, st) ==
  LET rows == Get(block, "rows")
  IN  IF ~IsList(rows) \/ ~Truthy(rows)
      THEN Err(st, E(path \o <<F("rows")>>, " must be a non-empty array", ""))
      ELSE table_rows_loop(rows.xs, 1, path, st)

\* the loop of _validate_blockquote_block and of _validate_callout_block
sub_blocks_loop(inner, i, path, st) ==
  IF i > Len(inner) \/ st.raised THEN st
  ELSE sub_blocks_loop(inner, i + 1, path,
         validate_block(inner[i], path \o <<F("blocks"), X(i - 1)>>, st))

\* _validate_blockquote_block
validate_blockquote_block(block, path, st) ==
  LET inner == Get(block, "blocks")
  IN  IF ~IsList(inner) \/ ~Truthy(inner)
      THEN Err(st, E(path \o <<F("blocks")>>, " must be a non-empty array", ""))
      ELSE sub_blocks_loop(inner.xs, 1, path, st)

\* _validate_callout_block
validate_callout_block(block, path, st) ==
  LET tone == Get(block, "tone")
      blocks == Get(block, "blocks")
  IN  \* tone not in {"info", "warning", "success", "danger"} hashes the value
      IF ~Hashable(tone) THEN Raise(st)
      ELSE LET s1 == IF ~InStrSet(tone, {"info", "warning", "success", "danger"})
                     THEN Err(st, E(path \o <<F("tone")>>, " has an illegal value: ",
                                    PyStr(tone)))
                     ELSE st
           IN  IF ~IsList(blocks) \/ ~Truthy(blocks)
               THEN Err(s1, E(path \o <<F("blocks")>>, " must be a non-empty array", ""))
               ELSE sub_blocks_loop(blocks.xs, 1, path, s1)

\* the narrower mark check of _validate_engineQuote_block, from mark number m
RECURSIVE engineQuote_marks_loop(_, _, _, _)
engineQuote_marks_loop(marks, m, rpath, st) ==
  IF m > Len(marks) \/ st.raised THEN st
  ELSE LET mark == marks[m]
           mark_type == IF IsDict(mark) THEN Get(mark, "type") ELSE JNull
           \* mark_type not in {"bold", "italic"} hashes the value
           s1 == IF ~Hashable(mark_type) THEN Raise(st)
                 ELSE IF ~InStrSet(mark_type, {"bold", "italic"})
                      THEN Err(st, E(rpath \o <<F("marks"), X(m - 1), F("type")>>,
                                     " only allows bold/italic", ""))
                      ELSE st
       IN  engineQuote_marks_loop(marks, m + 1, rpath, s1)

\* the loop of _validate_engineQuote_block over the inline runs of one paragraph
RECURSIVE engineQuote_runs_loop(_, _, _, _)
engineQuote_runs_loop(inlines, r, sub_path, st) ==
  IF r > Len(inlines) \/ st.raised THEN st
  ELSE LET run == inlines[r]
           rpath == sub_path \o <<F("inlines"), X(r - 1)>>
           s1 == validate_inline_run(run, rpath, st)
           \* run.get("marks") or []
           marks == IF Truthy(Get(run, "marks")) THEN Get(run, "marks") ELSE JList(<<>>)
           s2 == IF ~IsDict(run) THEN s1
                 ELSE IF ~IsList(marks)
                      THEN Err(s1, E(rpath \o <<F("marks")>>, " must be an array", ""))
                      ELSE engineQuote_marks_loop(marks.xs, 1, rpath, s1)
       IN  engineQuote_runs_loop(inlines, r + 1, sub_path, s2)

\* the loop of _validate_engineQuote_block over its sub-blocks
RECURSIVE engineQuote_loop(_, _, _, _)

\* mutant of engineQuote_loop: no continue after the type diagnostic, the
\* inlines of the rejected sub-block are checked as well
engineQuote_loop_no_continue(inner, i, path, st) ==
  IF i > Len(inner) \/ st.raised THEN st
  ELSE LET sub_block == inner[i]
           sub_path == path \o <<F("blocks"), X(i - 1)>>
           s0 == Visit(st, sub_path)
           inlines == Get(sub_block, "inlines")
           s1 == IF Get(sub_block, "type") # JStr("paragraph")
                 THEN Err(s0, E(sub_path \o <<F("type")>>, " only allows paragraph", ""))
                 ELSE s0
           s2 == IF ~IsDict(sub_block)
                 THEN Err(s0, E(sub_path, " must be an object", ""))
                 ELSE IF ~IsList(inlines) \/ ~Truthy(inlines)
                      THEN Err(s1, E(sub_path \o <<F("inlines")>>,
                                     " must be a non-empty array", ""))
                      ELSE engineQuote_runs_loop(inlines.xs, 1, sub_path, s1)
       IN  engineQuote_loop(inner, i + 1, path, s2)

engineQuote_loop(inner, i, path, st) ==
  IF i > Len(inner) \/ st.raised THEN st
  ELSE LET sub_block == inner[i]
           sub_path == path \o <<F("blocks"), X(i - 1)>>
           s0 == Visit(st, sub_path)
           inlines == Get(sub_block, "inlines")
           s1 == IF ~IsDict(sub_block)
                 THEN Err(s0, E(sub_path, " must be an object", ""))
                 ELSE IF Get(sub_block, "type") # JStr("paragraph")
                      THEN Err(s0, E(sub_path \o <<F("type")>>, " only allows paragraph", ""))
                      ELSE IF ~IsList(inlines) \/ ~Truthy(inlines)
                           THEN Err(s0, E(sub_path \o <<F("inlines")>>,
                                          " must be a non-empty array", ""))
                           ELSE engineQuote_runs_loop(inlines.xs, 1, sub_path, s0)
       IN  engineQuote_loop(inner, i + 1, path, s1)

\* _validate_engineQuote_block
validate_engineQuote_block(block, path, st) ==
  LET engine_raw == Get(block, "engine")
      \* "" stands for None: neither is in the vocabulary, neither is truthy
      engine == IF IsStr(engine_raw) THEN lower(engine_raw.s) ELSE ""
      s1 == IF engine \notin {"insight", "media", "query"}
            THEN Err(st, E(path \o <<F("engine")>>, " has an illegal value: ",
                           PyStr(engine_raw)))
            ELSE st
      title == Get(block, "title")
      expected_title == IF engine # "" THEN ENGINE_AGENT_TITLES(engine) ELSE ""
      s2 == IF IsNone(title)
            THEN Err(s1, E(path \o <<F("title")>>, " is missing", ""))
            ELSE IF ~IsStr(title)
                 THEN Err(s1, E(path \o <<F("title")>>, " must be a string", ""))
                 ELSE IF expected_title # "" /\ title.s # expected_title
                      THEN Err(s1, E(path \o <<F("title")>>,
                                     " must match engine, use the Agent name: ",
                                     expected_title))
                      ELSE s1
      inner == Get(block, "blocks")
  IN  IF ~IsList(inner) \/ ~Truthy(inner)
      THEN Err(s2, E(path \o <<F("blocks")>>, " must be a non-empty array", ""))
      ELSE engineQuote_loop(inner.xs, 1, path, s2)

\* the loop of _validate_kpiGrid_block
RECURSIVE kpiGrid_loop(_, _, _, _)
kpiGrid_loop(items, i, path, st) ==
  IF i > Len(items) THEN st
  ELSE LET item == items[i]
           ipath == path \o <<F("items"), X(i - 1)>>
           s1 == IF ~IsDict(item) THEN Err(st, E(ipath, " must be an object", ""))
                 ELSE IF ~Has(item, "label") \/ ~Has(item, "value")
                      THEN Err(st, E(ipath, " needs label and value", ""))
                      ELSE st
       IN  kpiGrid_loop(items, i + 1, path, s1)

\* _validate_kpiGrid_block
validate_kpiGrid_block(block, path, st) ==
  LET items == Get(block, "items")
  IN  IF ~IsList(items) \/ ~Truthy(items)
      THEN Err(st, E(path \o <<F("items")>>, " must be a non-empty array", ""))
      ELSE kpiGrid_loop(items.xs, 1, path, st)

\* _validate_widget_block
validate_widget_block(block, path, st) ==
  LET s1 == IF ~Has(block, "widgetId")
            THEN Err(st, E(path \o <<F("widgetId")>>, " is missing", ""))
            ELSE st
      s2 == IF ~Has(block, "widgetType")
            THEN Err(s1, E(path \o <<F("widgetType")>>, " is missing", ""))
            ELSE s1
  IN  IF ~Has(block, "data") /\ ~Has(block, "dataRef")
      THEN Err(s2, E(path, " needs one of data or dataRef", ""))
      ELSE s2

\* _validate_code_block
validate_code_block(block, path, st) ==
  IF ~Has(block, "content")
  THEN Err(st, E(path \o <<F("content")>>, " is missing", ""))
  ELSE st

\* _validate_math_block
validate_math_block(block, path, st) ==
  IF ~Has(block, "latex")
  THEN Err(st, E(path \o <<F("latex")>>, " is missing", ""))
  ELSE st

\* _validate_figure_block
validate_figure_block(block, path, st) ==
  LET img == Get(block, "img")
  IN  IF ~IsDict(img)
      THEN Err(st, E(path \o <<F("img")>>, " must be an object", ""))
      ELSE IF ~Has(img, "src")
           THEN Err(st, E(path \o <<F("img"), F("src")>>, " is missing", ""))
           ELSE st

\* getattr(self, "_validate_<type>_block", None) and the call of what it finds
dispatch(block_type, block, path, st) ==
  CASE block_type = "heading" -> validate_heading_block(block, path, st)
    [] block_type = "paragraph" -> validate_paragraph_block(block, path, st)
    [] block_type = "list" -> validate_list_block(block, path, st)
    [] block_type = "table" -> validate_table_block(block, path, st)
    [] block_type = "blockquote" -> validate_blockquote_block(block, path, st)
    [] block_type = "engineQuote" -> validate_engineQuote_block(block, path, st)
    [] block_type = "callout" -> validate_callout_block(block, path, st)
    [] block_type = "kpiGrid" -> validate_kpiGrid_block(block, path, st)
    [] block_type = "widget" -> validate_widget_block(block, path, st)
    [] block_type = "code" -> validate_code_block(block, path, st)
    [] block_type = "math" -> validate_math_block(block, path, st)
    [] block_type = "figure" -> validate_figure_block(block, path, st)
    [] OTHER -> st

\* _validate_block
validate_block(block, path, st) ==
  IF st.raised THEN st
  ELSE LET s0 == Visit(st, path)
           block_type == Get(block, "type")
       IN  IF ~IsDict(block) THEN Err(s0, E(path, " must be an object", ""))
           ELSE IF ~InStrList(block_type, ALLOWED_BLOCK_TYPES)
                THEN Err(s0, E(path \o <<F("type")>>, " is not supported: ",
                               PyStr(block_type)))
                ELSE dispatch(block_type.s, block, path, s0)

(***************************************************************************)
(* validate_chapter                                                        *)
(***************************************************************************)
CHAPTER_FIELDS == <<"chapterId", "title", "anchor", "order", "blocks">>

MissingErr(field) ==
  [pre |-> "missing ", path |-> <<F("chapter"), F(field)>>, msg |-> "", arg |-> ""]

\* the loop over the five required fields, from field number k
RECURSIVE missing_loop(_, _, _)
missing_loop(chapter, k, errors) ==
  IF k > Len(CHAPTER_FIELDS) THEN errors
  ELSE missing_loop(chapter, k + 1,
         IF ~Has(chapter, CHAPTER_FIELDS[k])
         THEN Append(errors, MissingErr(CHAPTER_FIELDS[k]))
         ELSE errors)

\* mutant of blocks_is_bad: the emptiness of blocks is not tested
blocks_is_bad_type_only(chapter) == ~IsList(Get(chapter, "blocks"))

\* not isinstance(chapter.get("blocks"), list) or not chapter.get("blocks")
blocks_is_bad(chapter) ==
  ~IsList(Get(chapter, "blocks")) \/ ~Truthy(Get(chapter, "blocks"))

\* what a call holds before it starts and what it holds at each later point
Call(pc, chapter, idx, errors, visited, ok) ==
  [pc |-> pc, chapter |-> chapter, idx |-> idx, errors |-> errors,
   visited |-> visited, ok |-> ok]

NotCalled == Call("idle", JNull, 0, <<>>, <<>>, FALSE)

\* mutant of fresh_errors: the list lives on the instance and is never reset
shared_errors(c) ==
  IF \E d \in DOMAIN calls : d # c /\ calls[d].pc # "idle"
  THEN calls[CHOOSE d \in DOMAIN calls : d # c /\ calls[d].pc # "idle"].errors
  ELSE <<>>

\* errors: List[str] = []
fresh_errors(c) == <<>>

\* validate_chapter up to the loop over blocks: the type check of chapter,
\* the required fields and the shape of blocks
validate_chapter_entry(c) ==
  /\ calls[c].pc = "start"
  /\ LET chapter == calls[c].chapter
         errors == missing_loop(chapter, 1, fresh_errors(c))
     IN  calls' = [calls EXCEPT ![c] =
           IF ~IsDict(chapter)
           THEN Call("done", chapter, 0,
                     <<E(<<F("chapter")>>, " must be an object", "")>>, <<>>, FALSE)
           ELSE IF blocks_is_bad(chapter)
                THEN Call("done", chapter, 0,
                          Append(errors, E(<<F("chapter"), F("blocks")>>,
                                           " must be a non-empty array", "")),
                          <<>>, FALSE)
                ELSE Call("loop", chapter, 0, errors, <<>>, FALSE)]
  /\ UNCHANGED schema_version

\* one iteration of the loop over blocks: the whole _validate_block call on
\* blocks[idx]; an exception ends the call without a result
validate_chapter_loop(c) ==
  /\ calls[c].pc = "loop"
  /\ calls[c].idx < Len(Get(calls[c].chapter, "blocks").xs)
  /\ LET idx == calls[c].idx
         block == Get(calls[c].chapter, "blocks").xs[idx + 1]
         st == validate_block(block, <<F("blocks"), X(idx)>>,
                              St(calls[c].errors, FALSE, calls[c].visited))
     IN  calls' = [calls EXCEPT ![c] =
           Call(IF st.raised THEN "raised" ELSE "loop", calls[c].chapter,
                IF st.raised THEN idx ELSE idx + 1, st.errs, st.visited, FALSE)]
  /\ UNCHANGED schema_version

\* return len(errors) == 0, errors
validate_chapter_return(c) ==
  /\ calls[c].pc = "loop"
  /\ calls[c].idx = Len(Get(calls[c].chapter, "blocks").xs)
  /\ calls' = [calls EXCEPT ![c].pc = "done", ![c].ok = (Len(calls[c].errors) = 0)]
  /\ UNCHANGED schema_version

\* the loop over blocks run to its end
RECURSIVE blocks_loop(_, _, _)
blocks_loop(blocks, i, st) ==
  IF i > Len(blocks) \/ st.raised THEN st
  ELSE blocks_loop(blocks, i + 1, validate_block(blocks[i], <<F("blocks"), X(i - 1)>>, st))

\* validate_chapter run alone, from call to return (or to the exception)
validate_chapter(chapter) ==
  IF ~IsDict(chapter)
  THEN [raised |-> FALSE, ok |-> FALSE,
        errors |-> <<E(<<F("chapter")>>, " must be an object", "")>>]
  ELSE LET errors == missing_loop(chapter, 1, <<>>)
       IN  IF blocks_is_bad(chapter)
           THEN [raised |-> FALSE, ok |-> FALSE,
                 errors |-> Append(errors, E(<<F("chapter"), F("blocks")>>,
                                             " must be a non-empty array", ""))]
           ELSE LET st == blocks_loop(Get(chapter, "blocks").xs, 1,
                                      St(errors, FALSE, <<>>))
                IN  [raised |-> st.raised, ok |-> ~st.raised /\ Len(st.errs) = 0,
                     errors |-> IF st.raised THEN <<>> ELSE st.errs]

(***************************************************************************)
(* Inputs: the chapters the calls are made on                              *)
(***************************************************************************)
MaxBlocks == 3
NumCalls == 2

Blk(type, entries) == JDict(<<KV("type", JStr(type))>> \o entries)
Fld(key, val) == <<KV(key, val)>>

hOK == Blk("heading", Fld("level", JInt(1)) \o Fld("text", JStr("t")) \o Fld("anchor", JStr("a")))
hBad == Blk("heading", Fld("level", JStr("1")) \o Fld("text", JStr("t")) \o Fld("anchor", JStr("a")))
runOK == JDict(Fld("text", JStr("t")))
pOK == Blk("paragraph", Fld("inlines", JList(<<runOK>>)))
pEmpty == Blk("paragraph", Fld("inlines", JList(<<>>)))
unkDeep == Blk("foo", Fld("blocks", JList(<<JStr("x")>>)) \o Fld("inlines", JList(<<>>)))

MarkT(v) == JDict(Fld("type", v))

\* inline runs
Runs ==
  { JStr("x"), runOK, JDict(<<>>),
    JDict(Fld("text", JStr("t")) \o Fld("marks", JNull)),
    JDict(Fld("text", JStr("t")) \o Fld("marks", JStr("x"))),
    JDict(Fld("text", JStr("t")) \o Fld("marks", JStr(""))),
    JDict(Fld("text", JStr("t")) \o Fld("marks", JInt(0))),
    JDict(Fld("text", JStr("t")) \o Fld("marks", JDict(Fld("type", JStr("bold"))))),
    JDict(Fld("text", JStr("t")) \o Fld("marks", JList(<<>>))),
    JDict(Fld("text", JStr("t")) \o Fld("marks", JList(<<MarkT(JStr("bold"))>>))),
    JDict(Fld("text", JStr("t")) \o Fld("marks", JList(<<MarkT(JStr("underline"))>>))),
    JDict(Fld("text", JStr("t")) \o Fld("marks", JList(<<MarkT(JStr("foo"))>>))),
    JDict(Fld("text", JStr("t")) \o Fld("marks", JList(<<JStr("m")>>))),
    JDict(Fld("text", JStr("t")) \o Fld("marks", JList(<<MarkT(JList(<<>>))>>))),
    JDict(Fld("marks", JList(<<MarkT(JStr("italic")), MarkT(JStr("foo")), JDict(<<>>)>>))) }

\* paragraphs
Paragraphs ==
  { pEmpty, Blk("paragraph", <<>>), Blk("paragraph", Fld("inlines", JStr("x"))) }
  \cup { Blk("paragraph", Fld("inlines", JList(<<r>>))) : r \in Runs }
  \cup { Blk("paragraph", Fld("inlines", JList(<<JInt(1), runOK, r>>))) : r \in Runs }

\* blocks without nested blocks
Leaves ==
  Paragraphs \cup
  { hOK, hBad,
    Blk("heading", Fld("level", JBool(TRUE)) \o Fld("text", JStr("t")) \o Fld("anchor", JStr("a"))),
    Blk("heading", Fld("level", JFloat("1.5")) \o Fld("text", JNull)),
    Blk("heading", <<>>),
    Blk("code", Fld("content", JStr("c"))), Blk("code", <<>>),
    Blk("math", Fld("latex", JStr("x"))), Blk("math", <<>>),
    Blk("figure", Fld("img", JDict(Fld("src", JStr("u"))))),
    Blk("figure", Fld("img", JDict(<<>>))), Blk("figure", Fld("img", JStr("u"))),
    Blk("figure", <<>>),
    Blk("widget", Fld("widgetId", JStr("w")) \o Fld("widgetType", JStr("k")) \o Fld("data", JNull)),
    Blk("widget", Fld("widgetId", JStr("w")) \o Fld("dataRef", JStr("r")) \o Fld("data", JInt(1))),
    Blk("widget", <<>>),
    Blk("kpiGrid", Fld("items", JList(<<JDict(Fld("label", JStr("l")) \o Fld("value", JInt(1)))>>))),
    Blk("kpiGrid", Fld("items", JList(<<JStr("x"), JDict(Fld("label", JStr("l"))), JDict(<<>>)>>))),
    Blk("kpiGrid", Fld("items", JList(<<>>))), Blk("kpiGrid", <<>>),
    unkDeep, Blk("Heading", <<>>), Blk("", <<>>),
    JDict(<<>>), JDict(Fld("type", JNull)), JDict(Fld("type", JInt(5))),
    JDict(Fld("type", JList(<<>>))), JDict(Fld("type", JList(<<JStr("heading")>>))),
    JDict(Fld("type", JDict(Fld("a", JBool(FALSE))))),
    JStr("x"), JNull, JList(<<>>), JInt(7), JBool(TRUE) }

\* the blocks put inside containers
Nested ==
  { hOK, hBad, pEmpty, unkDeep, JStr("x"), JDict(Fld("type", JList(<<>>))) }

ListTypes ==
  { <<>>, Fld("listType", JStr("bullet")), Fld("listType", JStr("Bullet")),
    Fld("listType", JList(<<>>)), Fld("listType", JDict(<<>>)) }

ItemsOf(S) ==
  { <<>>, Fld("items", JList(<<>>)), Fld("items", JStr("s")), Fld("items", JNull),
    Fld("items", JList(<<JList(<<>>)>>)),
    Fld("items", JList(<<JList(<<hOK>>), JList(<<>>)>>)) }
  \cup { Fld("items", JList(<<JList(<<n>>)>>)) : n \in S }
  \cup { Fld("items", JList(<<JList(<<hOK>>), JList(<<n>>)>>)) : n \in S }
  \cup { Fld("items", JList(<<JList(<<hOK, n>>)>>)) : n \in S }
  \cup { Fld("items", JList(<<JStr("s"), JList(<<>>), JList(<<n, hOK>>)>>)) : n \in S }

ListsOf(S) == { Blk("list", lt \o it) : lt \in ListTypes, it \in ItemsOf(S) }

Cell(blocks) == JDict(Fld("blocks", JList(blocks)))
Row(cells) == JDict(Fld("cells", JList(cells)))

RowsOf(S) ==
  { <<>>, Fld("rows", JList(<<>>)), Fld("rows", JDict(<<>>)),
    Fld("rows", JList(<<JStr("x"), Row(<<>>), JDict(<<>>)>>)),
    Fld("rows", JList(<<Row(<<JStr("x"), Cell(<<>>), JDict(<<>>)>>)>>)) }
  \cup { Fld("rows", JList(<<Row(<<Cell(<<n>>)>>)>>)) : n \in S }
  \cup { Fld("rows", JList(<<Row(<<Cell(<<hOK, n>>)>>)>>)) : n \in S }
  \cup { Fld("rows", JList(<<Row(<<Cell(<<hOK>>), Cell(<<n>>)>>)>>)) : n \in S }
  \cup { Fld("rows", JList(<<Row(<<Cell(<<hOK>>)>>), Row(<<JNull, Cell(<<n>>)>>)>>)) : n \in S }

TablesOf(S) == { Blk("table", rw) : rw \in RowsOf(S) }

BlocksOf(S) ==
  { <<>>, Fld("blocks", JList(<<>>)), Fld("blocks", JStr("x")), Fld("blocks", JInt(0)) }
  \cup { Fld("blocks", JList(<<n>>)) : n \in S }
  \cup { Fld("blocks", JList(<<hOK, n>>)) : n \in S }
  \cup { Fld("blocks", JList(<<hBad, n, hBad>>)) : n \in S }

BlockquotesOf(S) == { Blk("blockquote", bl) : bl \in BlocksOf(S) }

Tones ==
  { <<>>, Fld("tone", JStr("info")), Fld("tone", JStr("loud")),
    Fld("tone", JDict(<<>>)), Fld("tone", JList(<<JStr("info")>>)) }

CalloutsOf(S) == { Blk("callout", tn \o bl) : tn \in Tones, bl \in BlocksOf(S) }

Engines ==
  { <<>>, Fld("engine", JStr("insight")), Fld("engine", JStr("Insight")),
    Fld("engine", JStr("MEDIA")), Fld("engine", JStr("query")),
    Fld("engine", JStr("forum")), Fld("engine", JStr("")), Fld("engine", JNull),
    Fld("engine", JInt(5)), Fld("engine", JList(<<JStr("insight")>>)) }

Titles ==
  { <<>>, Fld("title", JStr("Insight Agent")), Fld("title", JStr("Media Agent")),
    Fld("title", JStr("Query Agent")), Fld("title", JStr("insight agent")),
    Fld("title", JStr("")), Fld("title", JNull), Fld("title", JInt(3)),
    Fld("title", JList(<<>>)) }

\* bodies of an engineQuote
Bodies ==
  { <<>>, Fld("blocks", JList(<<>>)), Fld("blocks", JStr("x")) }
  \cup { Fld("blocks", JList(<<n>>)) : n \in Nested \cup Paragraphs }
  \cup { Fld("blocks", JList(<<pOK, n>>)) : n \in Nested \cup Paragraphs }

EngineQuotes ==
  { Blk("engineQuote", en \o ti \o Fld("blocks", JList(<<pOK>>))) : en \in Engines, ti \in Titles }
  \cup { Blk("engineQuote", en \o ti \o bo) :
           en \in {Fld("engine", JStr("Insight")), Fld("engine", JStr("forum"))},
           ti \in {Fld("title", JStr("Insight Agent")), Fld("title", JStr("Query Agent"))},
           bo \in Bodies }

Containers(S) ==
  ListsOf(S) \cup TablesOf(S) \cup BlockquotesOf(S) \cup CalloutsOf(S)

\* containers put inside containers
Inner ==
  { Blk("list", Fld("listType", JStr("task")) \o Fld("items", JList(<<JList(<<>>)>>))),
    Blk("list", Fld("listType", JList(<<>>)) \o Fld("items", JList(<<JList(<<hBad>>)>>))),
    Blk("list", Fld("listType", JStr("ordered"))
                \o Fld("items", JList(<<JList(<<hOK>>), JList(<<hBad>>)>>))),
    Blk("table", Fld("rows", JList(<<Row(<<Cell(<<pEmpty>>)>>)>>))),
    Blk("table", Fld("rows", JList(<<Row(<<Cell(<<>>)>>)>>))),
    Blk("blockquote", Fld("blocks", JList(<<unkDeep>>))),
    Blk("blockquote", Fld("blocks", JList(<<>>))),
    Blk("callout", Fld("tone", JList(<<>>)) \o Fld("blocks", JList(<<hBad>>))),
    Blk("callout", Fld("tone", JStr("danger")) \o Fld("blocks", JList(<<hOK>>))),
    Blk("engineQuote", Fld("engine", JStr("Query")) \o Fld("title", JStr("x"))
                       \o Fld("blocks", JList(<<unkDeep>>))),
    Blk("engineQuote", Fld("engine", JStr("media")) \o Fld("title", JStr("Media Agent"))
                       \o Fld("blocks", JList(<<pOK>>))) }

Wrapped ==
  { Blk("list", Fld("listType", JStr("bullet")) \o Fld("items", JList(<<JList(<<hOK>>), JList(<<n, hBad>>)>>))) : n \in Inner }
  \cup { Blk("table", Fld("rows", JList(<<Row(<<Cell(<<n>>)>>)>>))) : n \in Inner }
  \cup { Blk("blockquote", Fld("blocks", JList(<<hBad, n>>))) : n \in Inner }
  \cup { Blk("callout", Fld("tone", JStr("info")) \o Fld("blocks", JList(<<n, JInt(1)>>))) : n \in Inner }

\* every block a one-block chapter is built from
Pool == Leaves \cup Containers(Nested) \cup EngineQuotes \cup Wrapped

\* the blocks chapters of several blocks are built from
Siblings ==
  { hOK, hBad, JStr("x"), unkDeep,
    Blk("list", Fld("listType", JList(<<>>)) \o Fld("items", JList(<<JList(<<hBad>>)>>))),
    Blk("list", Fld("listType", JStr("bullet")) \o Fld("items", JList(<<JList(<<>>)>>))) }

RECURSIVE SeqsOf(_, _)
SeqsOf(S, n) ==
  IF n = 0 THEN {<<>>}
  ELSE {Append(q, x) : q \in SeqsOf(S, n - 1), x \in S}

HeadFld(key) ==
  CASE key = "chapterId" -> Fld("chapterId", JStr("c1"))
    [] key = "title" -> Fld("title", JStr("T"))
    [] key = "anchor" -> Fld("anchor", JStr("a"))
    [] OTHER -> Fld("order", JInt(1))

\* the header fields of present, in the order of CHAPTER_FIELDS
Header(present) ==
  (IF "chapterId" \in present THEN HeadFld("chapterId") ELSE <<>>)
  \o (IF "title" \in present THEN HeadFld("title") ELSE <<>>)
  \o (IF "anchor" \in present THEN HeadFld("anchor") ELSE <<>>)
  \o (IF "order" \in present THEN HeadFld("order") ELSE <<>>)

FullHeader == Header({"chapterId", "title", "anchor", "order"})

BlocksFields ==
  { <<>>, Fld("blocks", JNull), Fld("blocks", JList(<<>>)), Fld("blocks", JStr("x")),
    Fld("blocks", JDict(Fld("0", hOK))), Fld("blocks", JInt(0)),
    Fld("blocks", JList(<<hOK>>)), Fld("blocks", JList(<<hBad, pEmpty>>)),
    Fld("blocks", JList(<<hOK, Blk("callout", Fld("tone", JList(<<>>)))>>)) }

\* a list whose second item starts with an invalid heading, next to a table
\* whose only cell holds a paragraph without inlines
ExampleChapters ==
  { JDict(FullHeader \o Fld("blocks", JList(<<
      hOK,
      Blk("list", Fld("listType", JStr("ordered"))
                  \o Fld("items", JList(<<JList(<<hOK, pOK>>), JList(<<hBad, hOK>>)>>))),
      Blk("table", Fld("rows", JList(<<Row(<<Cell(<<pEmpty>>)>>)>>))) >>))) }

Chapters ==
  { JNull, JStr("chapter"), JList(<<hOK>>), JInt(1), JBool(FALSE) }
  \cup ExampleChapters
  \cup { JDict(Header(pr) \o bf) :
           pr \in SUBSET {"chapterId", "title", "anchor", "order"}, bf \in BlocksFields }
  \cup { JDict(FullHeader \o Fld("blocks", JList(<<b>>))) : b \in Pool }
  \cup { JDict(FullHeader \o Fld("blocks", JList(q))) :
           q \in UNION { SeqsOf(Siblings, n) : n \in 2..MaxBlocks } }

\* the chapters of the calls that run side by side
SmallChapters ==
  { JStr("chapter"),
    JDict(Fld("title", JStr("T")) \o Fld("blocks", JList(<<>>))),
    JDict(FullHeader \o Fld("blocks", JList(<<hOK>>))),
    JDict(Fld("blocks", JList(<<hBad, JStr("x")>>))),
    JDict(FullHeader \o Fld("blocks", JList(<<hBad,
      Blk("list", Fld("listType", JList(<<>>)) \o Fld("items", JList(<<JList(<<hBad>>)>>)))>>))) }

(***************************************************************************)
(* The validator instance and the calls made on it                         *)
(***************************************************************************)
Callers == 1..NumCalls

\* one call on any chapter
Init ==
  /\ schema_version = IR_VERSION
  /\ \E ch \in Chapters :
       calls = [c \in Callers |-> IF c = 1 THEN Call("start", ch, 0, <<>>, <<>>, FALSE)
                                  ELSE NotCalled]

\* every caller calls the one instance
InitConc ==
  /\ schema_version = IR_VERSION
  /\ calls \in [Callers -> {Call("start", ch, 0, <<>>, <<>>, FALSE) : ch \in SmallChapters}]

Next ==
  \E c \in Callers :
    \/ validate_chapter_entry(c)
    \/ validate_chapter_loop(c)
    \/ validate_chapter_return(c)

Spec == Init /\ [][Next]_vars

SpecConc == InitConc /\ [][Next]_vars

Returned(c) == calls[c].pc = "done"
Raised(c) == calls[c].pc = "raised"

(***************************************************************************)
(* Reading a chapter by path                                               *)
(***************************************************************************)
Undef == [t |-> "undef", s |-> "", n |-> 0, xs |-> <<>>, kv |-> <<>>]

\* the child of v that one path segment names, Undef when there is none
Child(v, seg) ==
  IF IsIndex(seg)
  THEN IF IsList(v) /\ seg.i >= 0 /\ seg.i < Len(v.xs) THEN v.xs[seg.i + 1] ELSE Undef
  ELSE IF IsDict(v) /\ Has(v, seg.f) THEN Get(v, seg.f) ELSE Undef

RECURSIVE NodeFrom(_, _, _)
NodeFrom(v, path, i) ==
  IF i > Len(path) THEN v ELSE NodeFrom(Child(v, path[i]), path, i + 1)

\* the node of chapter at path; a path of a chapter-level diagnostic starts
\* with the name chapter, every other path with the field blocks
Node(chapter, path) ==
  IF Len(path) > 0 /\ path[1] = F("chapter") THEN NodeFrom(chapter, path, 2)
  ELSE NodeFrom(chapter, path, 1)

Front(path) == SubSeq(path, 1, Len(path) - 1)
Last(path) == path[Len(path)]
IsPrefix(p, q) == Len(p) <= Len(q) /\ SubSeq(q, 1, Len(p)) = p

\* the positions of the diagnostics of errors that lie at or beneath path
Under(errors, path) == {k \in 1..Len(errors) : IsPrefix(path, errors[k].path)}

\* the call c has ended, by a return or by an exception
Ended(c) == calls[c].pc \in {"done", "raised"}

(***************************************************************************)
(* C1                                                                      *)
(***************************************************************************)
\* C1: whatever value is passed as chapter, validate_chapter returns an
\* (ok, errors) pair and never raises an exception.
C1_NeverRaises == \A c \in Callers : ~Raised(c)

(***************************************************************************)
(* C2                                                                      *)
(***************************************************************************)
BlocksPresentButBad(chapter) ==
  IsDict(chapter) /\ Has(chapter, "blocks") /\
  (~IsList(Get(chapter, "blocks")) \/ Len(Get(chapter, "blocks").xs) = 0)

OtherFields == {"chapterId", "title", "anchor", "order"}

MissingOf(chapter) == {f \in OtherFields : ~Has(chapter, f)}

\* C2 as stated: a chapter whose blocks is present but empty or not a
\* sequence gets ok=false and exactly one diagnostic, the one about
\* chapter.blocks, whatever its other fields are, and no block is checked.
C2_ExactlyOneDiagnostic ==
  \A c \in Callers :
    (BlocksPresentButBad(calls[c].chapter) /\ calls[c].pc # "start") =>
      /\ Returned(c) /\ ~calls[c].ok
      /\ Len(calls[c].errors) = 1
      /\ Render(calls[c].errors[1]) = "chapter.blocks must be a non-empty array"
      /\ calls[c].visited = <<>>

\* C2 as amended: such a chapter gets ok=false and a list made of one
\* "missing chapter.<field>" diagnostic for each of chapterId, title, anchor,
\* order that is absent, followed by exactly one diagnostic about
\* chapter.blocks (so the length is 1 exactly when the four other fields are
\* present), and no block is checked.
C2_OneBlocksDiagnosticLast ==
  \A c \in Callers :
    (BlocksPresentButBad(calls[c].chapter) /\ calls[c].pc # "start") =>
      LET errors == calls[c].errors
          n == Len(errors)
      IN  /\ Returned(c) /\ ~calls[c].ok
          /\ n = 1 + Cardinality(MissingOf(calls[c].chapter))
          /\ Render(errors[n]) = "chapter.blocks must be a non-empty array"
          /\ \A k \in 1..(n - 1) :
               \E f \in MissingOf(calls[c].chapter) :
                 Render(errors[k]) = "missing chapter." \o f
          /\ \A j, k \in 1..(n - 1) : j # k => errors[j] # errors[k]
          /\ calls[c].visited = <<>>

C2_Witness ==
  \E c \in Callers :
    /\ Returned(c) /\ BlocksPresentButBad(calls[c].chapter)
    /\ Len(calls[c].errors) = 3
    /\ Len(Get(calls[c].chapter, "blocks").xs) = 0 /\ IsList(Get(calls[c].chapter, "blocks"))

(***************************************************************************)
(* C3                                                                      *)
(***************************************************************************)
NonEmptyList(v) == IsList(v) /\ Len(v.xs) > 0

TypeOf(block) == IF IsDict(block) /\ IsStr(Get(block, "type")) THEN Get(block, "type").s ELSE ""

\* no container-like block in the tree of block has an empty nested collection
RECURSIVE NoEmptyCollection(_)
NoEmptyCollection(block) ==
  CASE TypeOf(block) = "list" ->
         /\ NonEmptyList(Get(block, "items"))
         /\ \A i \in 1..Len(Get(block, "items").xs) :
              LET item == Get(block, "items").xs[i]
              IN  /\ NonEmptyList(item)
                  /\ \A j \in 1..Len(item.xs) : NoEmptyCollection(item.xs[j])
    [] TypeOf(block) = "table" ->
         /\ NonEmptyList(Get(block, "rows"))
         /\ \A r \in 1..Len(Get(block, "rows").xs) :
              LET cells == Get(Get(block, "rows").xs[r], "cells")
              IN  /\ NonEmptyList(cells)
                  /\ \A k \in 1..Len(cells.xs) :
                       LET blocks == Get(cells.xs[k], "blocks")
                       IN  /\ NonEmptyList(blocks)
                           /\ \A b \in 1..Len(blocks.xs) : NoEmptyCollection(blocks.xs[b])
    [] TypeOf(block) \in {"blockquote", "callout", "engineQuote"} ->
         /\ NonEmptyList(Get(block, "blocks"))
         /\ \A b \in 1..Len(Get(block, "blocks").xs) :
              NoEmptyCollection(Get(block, "blocks").xs[b])
    [] OTHER -> TRUE

\* C3: when validate_chapter returns ok=true, no list, item, table, row,
\* cell, blockquote, callout or engineQuote of the chapter has an empty
\* nested collection.
C3_NoEmptyCollectionPasses ==
  \A c \in Callers :
    (Returned(c) /\ calls[c].ok) =>
      \A i \in 1..Len(Get(calls[c].chapter, "blocks").xs) :
        NoEmptyCollection(Get(calls[c].chapter, "blocks").xs[i])

(***************************************************************************)
(* C4                                                                      *)
(***************************************************************************)
\* C4: in the errors list one call returns, no two entries are the same
\* string and no two entries report the same path.
C4_Deduplicated ==
  \A c \in Callers :
    Returned(c) =>
      \A j, k \in 1..Len(calls[c].errors) :
        j # k =>
          /\ Render(calls[c].errors[j]) # Render(calls[c].errors[k])
          /\ calls[c].errors[j].path # calls[c].errors[k].path

(***************************************************************************)
(* C5                                                                      *)
(***************************************************************************)
\* the blocks of an engineQuote are checked in place by the engineQuote
\* checker: a path names such a sub-block when it ends in .blocks[i] under a
\* block tagged engineQuote
InEngineQuoteBody(chapter, path) ==
  /\ Len(path) >= 4
  /\ IsIndex(Last(path))
  /\ path[Len(path) - 1] = F("blocks")
  /\ TypeOf(Node(chapter, SubSeq(path, 1, Len(path) - 2))) = "engineQuote"

\* the paths of the blocks the engineQuote checker was called on
EngineQuoteChecked(c) ==
  { k \in 1..Len(calls[c].visited) :
      /\ TypeOf(Node(calls[c].chapter, calls[c].visited[k])) = "engineQuote"
      /\ ~InEngineQuoteBody(calls[c].chapter, calls[c].visited[k]) }

\* the spellings of an engine name that differ from it by case only
Spellings(engine) ==
  CASE engine = "insight" -> {"insight", "Insight", "INSIGHT"}
    [] engine = "media" -> {"media", "Media", "MEDIA"}
    [] OTHER -> {"query", "Query", "QUERY"}

\* the engine of the vocabulary that raw names, "" when it names none
EngineNamed(raw) ==
  IF IsStr(raw) /\ \E g \in ENGINE_KEYS : raw.s \in Spellings(g)
  THEN CHOOSE g \in ENGINE_KEYS : raw.s \in Spellings(g)
  ELSE ""

TitleMatchMsg == " must match engine, use the Agent name: "

\* how many diagnostics of errors have this path and this message
Count(errors, path, msg) ==
  Cardinality({k \in 1..Len(errors) : errors[k].path = path /\ errors[k].msg = msg})

\* C5: for an engineQuote block the checker is called on, exactly one
\* title-must-match diagnostic is produced when engine, lowercased, is one of
\* insight/media/query, title is a string and title differs from the
\* canonical title of that engine, and none otherwise; an engine outside the
\* vocabulary gives one invalid-engine diagnostic and no title-match
\* diagnostic, while the title-missing and title-not-a-string checks still run.
C5_TitleEngineCoupling ==
  \A c \in Callers :
    \A k \in EngineQuoteChecked(c) :
      LET path == calls[c].visited[k]
          block == Node(calls[c].chapter, path)
          errors == calls[c].errors
          engine == EngineNamed(Get(block, "engine"))
          title == Get(block, "title")
          mismatch == engine # "" /\ IsStr(title) /\ title.s # ENGINE_AGENT_TITLES(engine)
      IN  /\ Count(errors, path \o <<F("title")>>, TitleMatchMsg) = IF mismatch THEN 1 ELSE 0
          /\ mismatch =>
               E(path \o <<F("title")>>, TitleMatchMsg, ENGINE_AGENT_TITLES(engine))
                 \in {errors[j] : j \in 1..Len(errors)}
          /\ Count(errors, path \o <<F("engine")>>, " has an illegal value: ")
               = IF engine = "" THEN 1 ELSE 0
          /\ Count(errors, path \o <<F("title")>>, " is missing")
               = IF IsNone(title) THEN 1 ELSE 0
          /\ Count(errors, path \o <<F("title")>>, " must be a string")
               = IF ~IsNone(title) /\ ~IsStr(title) THEN 1 ELSE 0

\* an engineQuote whose engine is written in capitals and whose title is the
\* canonical title of another engine got its one title-match diagnostic
C5_Witness ==
  \E c \in Callers :
    /\ Ended(c)
    /\ 1 \in EngineQuoteChecked(c)
    /\ Get(Node(calls[c].chapter, <<F("blocks"), X(0)>>), "engine")
         \in {JStr("Insight"), JStr("MEDIA")}
    /\ Get(Node(calls[c].chapter, <<F("blocks"), X(0)>>), "title") = JStr("Query Agent")
    /\ Count(calls[c].errors, <<F("blocks"), X(0), F("title")>>, TitleMatchMsg) = 1

(***************************************************************************)
(* C6                                                                      *)
(***************************************************************************)
\* the blocks a check was entered on whose type is outside the vocabulary
UnknownTypeChecked(c) ==
  { k \in 1..Len(calls[c].visited) :
      LET block == Node(calls[c].chapter, calls[c].visited[k])
      IN  IsDict(block) /\ ~InStrList(Get(block, "type"), ALLOWED_BLOCK_TYPES) }

\* C6 as stated: a block object whose type is outside the closed vocabulary,
\* at any nesting position, gets exactly one diagnostic; it names the block's
\* path and the offending type value, and nothing else is reported for the
\* block or beneath it.
C6_UnknownTypeNamesValue ==
  \A c \in Callers :
    \A k \in UnknownTypeChecked(c) :
      LET path == calls[c].visited[k]
          block == Node(calls[c].chapter, path)
          under == Under(calls[c].errors, path)
      IN  /\ Cardinality(under) = 1
          /\ \A j \in under :
               calls[c].errors[j] =
                 E(path \o <<F("type")>>, " is not supported: ", PyStr(Get(block, "type")))

\* C6 as amended: such a block, once its check is entered, gets exactly one
\* diagnostic, at <path>.type, and nothing else is reported for the block or
\* beneath it; the diagnostic names the offending type value, except for a
\* sub-block of an engineQuote, where it says that only paragraph is allowed
\* and names no value.
C6_UnknownTypeOneDiagnostic ==
  \A c \in Callers :
    \A k \in UnknownTypeChecked(c) :
      LET path == calls[c].visited[k]
          block == Node(calls[c].chapter, path)
          under == Under(calls[c].errors, path)
      IN  /\ Cardinality(under) = 1
          /\ \A j \in under :
               calls[c].errors[j] =
                 IF InEngineQuoteBody(calls[c].chapter, path)
                 THEN E(path \o <<F("type")>>, " only allows paragraph", "")
                 ELSE E(path \o <<F("type")>>, " is not supported: ",
                        PyStr(Get(block, "type")))

\* a block of unknown type that has fields and children of its own was
\* checked two levels down, outside any engineQuote
C6_Witness ==
  \E c \in Callers :
    \E k \in UnknownTypeChecked(c) :
      /\ Len(calls[c].visited[k]) >= 6
      /\ ~InEngineQuoteBody(calls[c].chapter, calls[c].visited[k])
      /\ Node(calls[c].chapter, calls[c].visited[k]) = unkDeep
      /\ Ended(c)

(***************************************************************************)
(* C7                                                                      *)
(***************************************************************************)
ErrorSet(c) == {calls[c].errors[k] : k \in 1..Len(calls[c].errors)}

\* what the diagnostic e says holds of the value got at its path (None when
\* the path names an absent field)
HasDefect(e, v) ==
  LET g == IF v = Undef THEN JNull ELSE v
      inMarks == Len(e.path) >= 3 /\ e.path[Len(e.path) - 2] = F("marks")
  IN  CASE e.pre = "missing " -> v = Undef
        [] e.msg = " must be an object" -> ~IsDict(g)
        [] e.msg = " is not supported: " ->
             /\ e.arg = PyStr(g)
             /\ ~InStrList(g, IF inMarks THEN ALLOWED_INLINE_MARKS ELSE ALLOWED_BLOCK_TYPES)
        [] e.msg = " must be an integer" -> ~IsInt(g)
        [] e.msg = " is missing" -> v = Undef \/ (Last(e.path) = F("title") /\ IsNone(v))
        [] e.msg \in {" must be a non-empty array", " must be a non-empty list"} ->
             ~NonEmptyList(g)
        [] e.msg = " has an illegal value" ->
             ~(IsStr(g) /\ g.s \in {"ordered", "bullet", "task"})
        [] e.msg = " has an illegal value: " ->
             /\ e.arg = PyStr(g)
             /\ IF Last(e.path) = F("tone")
                THEN ~(IsStr(g) /\ g.s \in {"info", "warning", "success", "danger"})
                ELSE EngineNamed(g) = ""
        [] e.msg = " must be an array of blocks" -> ~IsList(g)
        [] e.msg = " must be a string" -> ~IsStr(g)
        [] e.msg = TitleMatchMsg -> IsStr(g) /\ g.s # e.arg
        [] e.msg = " only allows paragraph" -> g # JStr("paragraph")
        [] e.msg = " must be an array" -> ~IsList(g) /\ ~IsNone(g)
        [] e.msg = " only allows bold/italic" -> ~(IsStr(g) /\ g.s \in {"bold", "italic"})
        [] e.msg = " needs label and value" ->
             IsDict(g) /\ (~Has(g, "label") \/ ~Has(g, "value"))
        [] e.msg = " needs one of data or dataRef" ->
             IsDict(g) /\ ~Has(g, "data") /\ ~Has(g, "dataRef")
        [] OTHER -> FALSE

\* the path of e leads, index by index from the chapter, to the node e is about
Addresses(chapter, e) ==
  /\ Len(e.path) > 0
  /\ Node(chapter, Front(e.path)) # Undef
  /\ IsIndex(Last(e.path)) => Node(chapter, e.path) # Undef
  /\ HasDefect(e, Node(chapter, e.path))

\* C7: the path of every diagnostic addresses the node it is about, every
\* index being the 0-based position of the node in its enclosing sequence,
\* through any depth of nesting; so a heading with a non-integer level is
\* reported at <its path>.level and a paragraph without inlines at
\* <its path>.inlines, wherever in the tree the check reaches them.
C7_PathFidelity ==
  \A c \in Callers :
    /\ \A e \in ErrorSet(c) : Addresses(calls[c].chapter, e)
    /\ \A k \in 1..Len(calls[c].visited) :
         LET path == calls[c].visited[k]
             block == Node(calls[c].chapter, path)
         IN  /\ ( /\ TypeOf(block) = "heading"
                  /\ ~InEngineQuoteBody(calls[c].chapter, path)
                  /\ ~IsInt(Get(block, "level")) )
                  => E(path \o <<F("level")>>, " must be an integer", "") \in ErrorSet(c)
             /\ (TypeOf(block) = "paragraph" /\ ~NonEmptyList(Get(block, "inlines")))
                  => E(path \o <<F("inlines")>>, " must be a non-empty array", "")
                       \in ErrorSet(c)

\* the two examples of the claim in one call, with the list at index 1 and
\* the table at index 2
C7_Witness ==
  \E c \in Callers :
    /\ Returned(c)
    /\ calls[c].chapter \in ExampleChapters
    /\ \E e \in ErrorSet(c) :
         Render(e) = "blocks[1].items[1][0].level must be an integer"
    /\ \E e \in ErrorSet(c) :
         Render(e) = "blocks[2].rows[0].cells[0].blocks[0].inlines must be a non-empty array"
    /\ Len(calls[c].errors) = 2

(***************************************************************************)
(* C8                                                                      *)
(***************************************************************************)
\* the structural requirements on an inline run
WellFormedRun(run, markTypes) ==
  /\ IsDict(run) /\ Has(run, "text")
  /\ \/ ~Has(run, "marks")
     \/ IsNone(Get(run, "marks"))
     \/ /\ IsList(Get(run, "marks"))
        /\ \A m \in 1..Len(Get(run, "marks").xs) :
             LET mark == Get(run, "marks").xs[m]
             IN  IsDict(mark) /\ IsStr(Get(mark, "type")) /\ Get(mark, "type").s \in markTypes

WellFormedParagraph(block, markTypes) ==
  /\ TypeOf(block) = "paragraph"
  /\ NonEmptyList(Get(block, "inlines"))
  /\ \A r \in 1..Len(Get(block, "inlines").xs) :
       WellFormedRun(Get(block, "inlines").xs[r], markTypes)

AllMarks == {ALLOWED_INLINE_MARKS[i] : i \in 1..Len(ALLOWED_INLINE_MARKS)}

\* the structural requirements on a block, kind by kind
RECURSIVE WellFormed(_)
WellFormed(block) ==
  LET kind == TypeOf(block)
      AllWellFormed(v) == NonEmptyList(v) /\ \A i \in 1..Len(v.xs) : WellFormed(v.xs[i])
  IN  CASE kind = "heading" ->
             Has(block, "level") /\ IsInt(Get(block, "level")) /\ Has(block, "text")
             /\ Has(block, "anchor")
        [] kind = "paragraph" -> WellFormedParagraph(block, AllMarks)
        [] kind = "list" ->
             /\ IsStr(Get(block, "listType"))
             /\ Get(block, "listType").s \in {"ordered", "bullet", "task"}
             /\ NonEmptyList(Get(block, "items"))
             /\ \A i \in 1..Len(Get(block, "items").xs) :
                  AllWellFormed(Get(block, "items").xs[i])
        [] kind = "table" ->
             /\ NonEmptyList(Get(block, "rows"))
             /\ \A r \in 1..Len(Get(block, "rows").xs) :
                  LET cells == Get(Get(block, "rows").xs[r], "cells")
                  IN  /\ NonEmptyList(cells)
                      /\ \A k \in 1..Len(cells.xs) :
                           AllWellFormed(Get(cells.xs[k], "blocks"))
        [] kind = "blockquote" -> AllWellFormed(Get(block, "blocks"))
        [] kind = "callout" ->
             /\ IsStr(Get(block, "tone"))
             /\ Get(block, "tone").s \in {"info", "warning", "success", "danger"}
             /\ AllWellFormed(Get(block, "blocks"))
        [] kind = "engineQuote" ->
             /\ EngineNamed(Get(block, "engine")) # ""
             /\ Get(block, "title")
                  = JStr(ENGINE_AGENT_TITLES(EngineNamed(Get(block, "engine"))))
             /\ NonEmptyList(Get(block, "blocks"))
             /\ \A i \in 1..Len(Get(block, "blocks").xs) :
                  WellFormedParagraph(Get(block, "blocks").xs[i], {"bold", "italic"})
        [] kind = "kpiGrid" ->
             /\ NonEmptyList(Get(block, "items"))
             /\ \A i \in 1..Len(Get(block, "items").xs) :
                  LET item == Get(block, "items").xs[i]
                  IN  IsDict(item) /\ Has(item, "label") /\ Has(item, "value")
        [] kind = "widget" ->
             /\ Has(block, "widgetId") /\ Has(block, "widgetType")
             /\ (Has(block, "data") \/ Has(block, "dataRef"))
        [] kind = "code" -> Has(block, "content")
        [] kind = "math" -> Has(block, "latex")
        [] kind = "figure" -> IsDict(Get(block, "img")) /\ Has(Get(block, "img"), "src")
        [] OTHER -> FALSE

\* the index in blocks that a diagnostic beneath blocks[i] belongs to
TopIndex(e) == e.path[2].i

\* C8: in a call on a chapter whose blocks is a non-empty sequence, every
\* element of blocks is checked whatever happened to its earlier siblings,
\* every structurally invalid element has at least one diagnostic under its
\* own path, and the diagnostics of blocks[i] come before those of blocks[j]
\* when i < j.
C8_SiblingsAllChecked ==
  \A c \in Callers :
    (Ended(c) /\ IsDict(calls[c].chapter) /\ NonEmptyList(Get(calls[c].chapter, "blocks"))) =>
      LET blocks == Get(calls[c].chapter, "blocks").xs
          errors == calls[c].errors
          under == {k \in 1..Len(errors) : IsPrefix(<<F("blocks")>>, errors[k].path)}
      IN  /\ \A i \in 1..Len(blocks) :
               /\ \E k \in 1..Len(calls[c].visited) :
                    calls[c].visited[k] = <<F("blocks"), X(i - 1)>>
               /\ ~WellFormed(blocks[i]) => Under(errors, <<F("blocks"), X(i - 1)>>) # {}
          /\ \A j, k \in under : j < k => TopIndex(errors[j]) <= TopIndex(errors[k])

(***************************************************************************)
(* C9                                                                      *)
(***************************************************************************)
\* C9: whatever the order and the interleaving of the calls on one
\* validator, every call ends as validate_chapter run alone on its chapter
\* ends (the same ok and the same errors, or the same exception), so two
\* calls on the same chapter end alike; no step changes a chapter or the
\* validator.
C9_CallsIndependent ==
  /\ [](\A c \in Callers :
          LET alone == validate_chapter(calls[c].chapter)
          IN  /\ Returned(c) =>
                   /\ ~alone.raised
                   /\ calls[c].ok = alone.ok
                   /\ calls[c].errors = alone.errors
              /\ Raised(c) => alone.raised
              /\ \A d \in Callers :
                   (calls[d].chapter = calls[c].chapter /\ Ended(c) /\ Ended(d)) =>
                     /\ calls[d].pc = calls[c].pc
                     /\ Returned(c) =>
                          calls[d].ok = calls[c].ok /\ calls[d].errors = calls[c].errors)
  /\ [][/\ schema_version' = schema_version
        /\ \A c \in Callers : calls'[c].chapter = calls[c].chapter]_vars

\* one call has returned diagnostics while another call on the same chapter
\* is in the middle of its loop over blocks
C9_Witness ==
  /\ Returned(1) /\ Len(calls[1].errors) >= 2
  /\ calls[2].pc = "loop" /\ calls[2].idx = 1
  /\ calls[2].chapter = calls[1].chapter
  /\ Len(calls[2].errors) < Len(calls[1].errors)

(***************************************************************************)
(* C10                                                                     *)
(***************************************************************************)
\* C10: a call on a chapter object that lacks any of chapterId, title,
\* anchor, order, blocks returns ok=false, and its errors list holds exactly
\* one "missing chapter.<field>" entry for every absent field and none for a
\* present one, whatever the blocks are.
C10_MissingFieldsReported ==
  \A c \in Callers :
    ( /\ Ended(c) /\ IsDict(calls[c].chapter)
      /\ \E k \in 1..Len(CHAPTER_FIELDS) : ~Has(calls[c].chapter, CHAPTER_FIELDS[k]) ) =>
        /\ Returned(c) /\ ~calls[c].ok
        /\ \A k \in 1..Len(CHAPTER_FIELDS) :
             Cardinality({j \in 1..Len(calls[c].errors) :
                            Render(calls[c].errors[j]) = "missing chapter." \o CHAPTER_FIELDS[k]})
               = IF Has(calls[c].chapter, CHAPTER_FIELDS[k]) THEN 0 ELSE 1

====
